---- MODULE Spec2Model ----
(***************************************************************************)
(* Home Assistant MCP server: the tool handlers of the server module, the  *)
(* HTTP client adapter (ha-client.ts) and the frontend that validates and  *)
(* dispatches one invocation at a time.                                    *)
(*                                                                         *)
(* A JavaScript value is a tagged record.  A JavaScript string is a        *)
(* sequence of chunks (TLA+ strings): one chunk per character where the    *)
(* code looks inside the string (entity ids, domains, log text, template   *)
(* output), one chunk per literal piece otherwise.  Template literals are  *)
(* concatenation of chunk sequences.                                       *)
(***************************************************************************)
EXTENDS Integers, Sequences, FiniteSets, TLC

VARIABLES
  phase,    \* frontend stage: "Idle", "Receiving", "Validating", "Dispatching"
  inv,      \* the invocation being served: [tool, args] as received
  args,     \* the arguments after schema parsing (defaults applied)
  entered,  \* TRUE once the handler of the invocation has been entered
  loc,      \* local variables of the running handler
  reqs,     \* upstream requests issued for the invocation, in order
  resps,    \* upstream responses fully received for the invocation
  call,     \* the adapter call in flight: [st, val, timer]
  outcome,  \* the outcome of the invocation: none, text result or error
  SUPERVISOR_TOKEN,  \* process.env.SUPERVISOR_TOKEN as read at module load
  stderr,   \* the lines written with console.error, in order
  flights   \* adapter calls in flight at once, by caller: [call, req, ctl]

vars ==
  <<phase, inv, args, entered, loc, reqs, resps, call, outcome,
    SUPERVISOR_TOKEN, stderr, flights>>

----------------------------------------------------------------------------
(* JavaScript values *)

Undef == [t |-> "undefined"]
Null == [t |-> "null"]
Bool(b) == [t |-> "boolean", v |-> b]
Num(n) == [t |-> "number", v |-> n]
Str(s) == [t |-> "string", v |-> s]
Arr(s) == [t |-> "array", v |-> s]
Obj(f) == [t |-> "object", v |-> f]
\* a function or object reached through the prototype chain of a plain object
Inherited(name) == [t |-> "inherited", v |-> name]

NoKeys == [k \in {} |-> Undef]

\* ToBoolean
Truthy(x) ==
  CASE x.t = "undefined" -> FALSE
    [] x.t = "null" -> FALSE
    [] x.t = "boolean" -> x.v
    [] x.t = "number" -> x.v # 0
    [] x.t = "string" -> x.v # <<>>
    [] OTHER -> TRUE

\* a || b
OrElse(a, b) == IF Truthy(a) THEN a ELSE b

\* String(x) as used by template literals `${x}`
ToStr(x) ==
  CASE x.t = "string" -> x.v
    [] x.t = "undefined" -> <<"undefined">>
    [] x.t = "null" -> <<"null">>
    [] x.t = "boolean" -> IF x.v THEN <<"true">> ELSE <<"false">>
    [] x.t = "number" -> <<ToString(x.v)>>
    [] x.t = "inherited" -> <<"[inherited ", x.v, "]">>
    [] x.t = "object" -> <<"[object Object]">>
    [] OTHER -> <<"[array]">>

\* JSON.stringify(x) / the value a JSON text denotes: the serialized form
\* is kept apart from the value it encodes
JsonOf(x) == [json |-> x]
RawText(s) == [raw |-> s]
IsJsonBody(b) == "json" \in DOMAIN b

----------------------------------------------------------------------------
(* Outcomes and adapter call states *)

NoOutcome == [kind |-> "none", text |-> <<>>]
TextResult(s) == [kind |-> "text", text |-> s]
ErrorResult(s) == [kind |-> "error", text |-> s]

\* st: "none", "pending" (fetch awaited), "response" (body read awaited),
\* "returned", "threw"; timer: "none", "armed", "fired", "cleared"
NoCall == [st |-> "none", val |-> Undef, timer |-> "none"]
NoLoc == [h |-> "none"]

----------------------------------------------------------------------------
(* Bounds of the data the model draws *)

MaxStates == 3    \* length of the upstream state list
MaxLimit == 2     \* magnitude of the limit and lines arguments
MaxLogLen == 3    \* characters of the log text
MaxRendered == 3  \* characters of a rendered template
MaxHours == 2     \* magnitude of the hours argument
MaxChanges == 2   \* state changes in a history payload
MaxAutomations == 2  \* length of the state list of ha_get_automations
MaxComponents == 2   \* length of the component list of ha_get_integrations
MaxCalls == 2        \* adapter calls in flight at the same time

----------------------------------------------------------------------------
(* Sequence helpers *)

RECURSIVE Join(_, _)
\* Array.prototype.join on an array of strings
Join(ss, sep) ==
  IF ss = <<>> THEN <<>>
  ELSE IF Len(ss) = 1 THEN ss[1]
  ELSE ss[1] \o sep \o Join(Tail(ss), sep)

\* all sequences over S of length at most n
SeqsUpTo(S, n) == UNION {[1..k -> S] : k \in 0..n}

IsSpace(c) == c \in {" ", "\n", "\t"}

\* String.prototype.trim
RECURSIVE TrimStart(_)
TrimStart(s) ==
  IF s # <<>> /\ IsSpace(Head(s)) THEN TrimStart(Tail(s)) ELSE s
RECURSIVE TrimEnd(_)
TrimEnd(s) ==
  IF s # <<>> /\ IsSpace(s[Len(s)]) THEN TrimEnd(SubSeq(s, 1, Len(s) - 1))
  ELSE s
Trim(s) == TrimEnd(TrimStart(s))

\* String.prototype.startsWith
StartsWith(s, p) == Len(p) <= Len(s) /\ SubSeq(s, 1, Len(p)) = p

----------------------------------------------------------------------------
(* Input schemas (zod) *)

ZString == [kind |-> "string", optional |-> FALSE, def |-> Undef]
ZOptString == [kind |-> "string", optional |-> TRUE, def |-> Undef]
ZBoolean == [kind |-> "boolean", optional |-> FALSE, def |-> Undef]
ZNumberDefault(n) == [kind |-> "number", optional |-> TRUE, def |-> Num(n)]
ZOptTarget == [kind |-> "target", optional |-> TRUE, def |-> Undef]
ZOptRecord == [kind |-> "record", optional |-> TRUE, def |-> Undef]

TargetKeys == {"entity_id", "area_id", "device_id"}

\* z.union([z.string(), z.array(z.string())])
IsStringOrStrings(x) ==
  \/ x.t = "string"
  \/ x.t = "array" /\ \A i \in 1..Len(x.v) : x.v[i].t = "string"

\* does the zod type z accept the value x
ZodAccepts(z, x) ==
  IF x.t = "undefined" THEN z.optional
  ELSE CASE z.kind = "string" -> x.t = "string"
         [] z.kind = "number" -> x.t = "number"
         [] z.kind = "boolean" -> x.t = "boolean"
         [] z.kind = "target" ->
              /\ x.t = "object"
              /\ \A k \in DOMAIN x.v \cap TargetKeys :
                   x.v[k].t = "undefined" \/ IsStringOrStrings(x.v[k])
         [] z.kind = "record" -> x.t = "object"
         [] OTHER -> FALSE

\* the value zod hands to the handler: defaults applied, unknown keys of a
\* z.object stripped
ZodParse(z, x) ==
  IF x.t = "undefined" THEN z.def
  ELSE IF z.kind = "target"
       THEN Obj([k \in DOMAIN x.v \cap TargetKeys |-> x.v[k]])
       ELSE x

Field(a, k) == IF k \in DOMAIN a THEN a[k] ELSE Undef

----------------------------------------------------------------------------
(* HTTP client adapter (ha-client.ts) *)

HA_API_BASE == <<"http://supervisor/core/api">>
SUPERVISOR_API_BASE == <<"http://supervisor">>

\* RequestOptions with the defaults of the destructuring assignment
Options(method, body, rawResponse) ==
  [method |-> method, body |-> body, rawResponse |-> rawResponse]
Get == Options("GET", Undef, FALSE)
Post(body) == Options("POST", body, FALSE)

\* the argument of fetch(): url, method, headers and serialized body
FetchArg(base, endpoint, options) ==
  [url |-> base \o endpoint,
   endpoint |-> endpoint,
   method |-> options.method,
   authorization |-> <<"Bearer ">> \o ToStr(SUPERVISOR_TOKEN),
   body |-> IF Truthy(options.body) THEN JsonOf(options.body) ELSE Undef]

\* an upstream response: status, declared content type and body; a body is
\* raw text or the JSON text of a value
Response(status, ctype, body) ==
  [status |-> status, ctype |-> ctype, body |-> body]

ResponseOk(r) == r.status >= 200 /\ r.status <= 299

\* JSON.parse of a response body: a JSON text yields the value it denotes, a
\* raw text in double quotes yields the quoted string, any other raw text is
\* a syntax error
JsonParses(b) ==
  \/ IsJsonBody(b)
  \/ /\ Len(b.raw) >= 2
     /\ b.raw[1] = "\"" /\ b.raw[Len(b.raw)] = "\""
     /\ \A i \in 2..(Len(b.raw) - 1) : b.raw[i] # "\""
JsonParse(b) ==
  IF IsJsonBody(b) THEN b.json ELSE Str(SubSeq(b.raw, 2, Len(b.raw) - 1))

\* response.text()
BodyText(b) == IF IsJsonBody(b) THEN <<"<json text>">> ELSE b.raw

\* the completion of an adapter call once fetch() has resolved with r:
\* [st |-> "returned", val |-> payload] or [st |-> "threw", val |-> message]
Settle(api, req, options, r) ==
  IF ~ResponseOk(r)
  THEN [st |-> "threw",
        val |-> Str(<<api, " ", req.method, " ">> \o req.endpoint
                    \o <<" failed (", ToString(r.status), "): ">>
                    \o BodyText(r.body))]
  ELSE IF options.rawResponse
  THEN [st |-> "returned", val |-> Str(BodyText(r.body))]
  ELSE IF r.ctype = "application/json"
  THEN IF JsonParses(r.body)
       THEN [st |-> "returned", val |-> JsonParse(r.body)]
       ELSE [st |-> "threw", val |-> Str(<<"SyntaxError: invalid JSON">>)]
  ELSE [st |-> "returned", val |-> Str(BodyText(r.body))]

\* the errors fetch() and the body readers reject with
AbortError == Str(<<"AbortError: This operation was aborted">>)
NetworkError == Str(<<"TypeError: fetch failed">>)

\* one controller at module level would be shared by every call
SharedController(c) == 0

\* new AbortController(): every call constructs a controller of its own,
\* named here after the caller c
NewController(c) == c

\* a call that would await fetch() without a timer
StartedUntimed(api, options) ==
  [st |-> "pending", val |-> [api |-> api, options |-> options],
   timer |-> "none"]

\* the call after setTimeout(() => controller.abort(), timeout) and the
\* call of fetch(): the timer is armed, fetch() is awaited
Started(api, options) ==
  [st |-> "pending", val |-> [api |-> api, options |-> options],
   timer |-> "armed"]

\* the request issued and the call started by either adapter function
StartCall(api, base, endpoint, options) ==
  [req |-> FetchArg(base, endpoint, options), call |-> Started(api, options)]

\* an exit that would leave the timer as it is
clearTimeoutSkipped(c) == c

\* finally { clearTimeout(timer) }: a timer that has not fired is cancelled
clearTimeout(c) ==
  [c EXCEPT !.timer = IF @ = "armed" THEN "cleared" ELSE @]

\* fetch() resolves with the response r: the body is read next
OnResponse(c, r) ==
  [st |-> "response",
   val |-> [api |-> c.val.api, options |-> c.val.options, response |-> r],
   timer |-> c.timer]

\* the body of the response has been read to its end
OnBody(c, req) ==
  LET done == Settle(c.val.api, req, c.val.options, c.val.response) IN
  clearTimeout([st |-> done.st, val |-> done.val, timer |-> c.timer])

\* fetch() rejects with err
OnFetchRejected(c, err) ==
  clearTimeout([st |-> "threw", val |-> err, timer |-> c.timer])

\* a body read whose rejection would always propagate
OnBodyRejectedNoCatch(c, req, err) ==
  clearTimeout([st |-> "threw", val |-> err, timer |-> c.timer])

\* the read of the body rejects with err: response.text().catch(() => "")
\* turns the rejection into an empty text for a response that is not ok,
\* the readers of an ok response let it through
OnBodyRejected(c, req, err) ==
  IF ~ResponseOk(c.val.response)
  THEN LET r == [c.val.response EXCEPT !.body = RawText(<<>>)]
           done == Settle(c.val.api, req, c.val.options, r) IN
       clearTimeout([st |-> done.st, val |-> done.val, timer |-> c.timer])
  ELSE clearTimeout([st |-> "threw", val |-> err, timer |-> c.timer])

\* a signal that would stop observing the abort once fetch() has resolved
AbortedHeadersOnly(c, req) ==
  IF c.st = "pending" THEN OnFetchRejected(c, AbortError) ELSE c

\* the signal of the call's controller is aborted: the awaited fetch() or
\* the awaited body read rejects with an AbortError
Aborted(c, req) ==
  CASE c.st = "pending" -> OnFetchRejected(c, AbortError)
    [] c.st = "response" -> OnBodyRejected(c, req, AbortError)
    [] OTHER -> c

\* the timer of the call expires: () => controller.abort()
Expired(c, req) == Aborted([c EXCEPT !.timer = "fired"], req)

\* an adapter that would refuse to call without a credential and warn
haApiRequestFailFast(endpoint, options) ==
  LET s == StartCall("HA API", HA_API_BASE, endpoint, options) IN
  IF Truthy(SUPERVISOR_TOKEN)
  THEN /\ reqs' = Append(reqs, s.req)
       /\ call' = s.call
       /\ UNCHANGED stderr
  ELSE /\ call' = [st |-> "threw", val |-> Str(<<"no credential">>),
                   timer |-> "none"]
       /\ stderr' = Append(stderr, "SUPERVISOR_TOKEN not set")
       /\ UNCHANGED reqs

\* haApiRequest(endpoint, options) up to the await of fetch()
haApiRequest(endpoint, options) ==
  LET s == StartCall("HA API", HA_API_BASE, endpoint, options) IN
  /\ reqs' = Append(reqs, s.req)
  /\ call' = s.call
  /\ UNCHANGED stderr

\* supervisorApiRequest(endpoint, options) up to the await of fetch()
supervisorApiRequest(endpoint, options) ==
  LET s == StartCall("Supervisor API", SUPERVISOR_API_BASE, endpoint,
                     options) IN
  /\ reqs' = Append(reqs, s.req)
  /\ call' = s.call
  /\ UNCHANGED stderr

----------------------------------------------------------------------------
(* Handler steps: a handler runs from the dispatch to its first await or    *)
(* return (Begin) and from the return of the awaited adapter call to its   *)
(* own return (Resume)                                                     *)

\* the frontend invokes the handler of the tool with the parsed arguments
Begin(tool) ==
  /\ phase = "Dispatching"
  /\ inv.tool = tool
  /\ ~entered
  /\ entered' = TRUE
  /\ UNCHANGED <<phase, inv, args, resps, SUPERVISOR_TOKEN, flights>>

\* the awaited adapter call of the handler has returned a payload
Resume(tool) ==
  /\ phase = "Dispatching"
  /\ inv.tool = tool
  /\ call.st = "returned"
  /\ call' = NoCall
  /\ UNCHANGED <<phase, inv, args, entered, resps, SUPERVISOR_TOKEN, stderr,
                 flights>>

----------------------------------------------------------------------------
(* Tool 1: ha_get_entities *)

DefaultLimit == 200

EntitiesSchema ==
  [domain |-> ZOptString, limit |-> ZNumberDefault(DefaultLimit)]

\* obj.key on a plain data object
Prop(o, k) == IF k \in DOMAIN o.v THEN o.v[k] ELSE Undef

\* Array.prototype.slice(start, end) with relative (negative) indices
Slice(s, start, end) ==
  LET len == Len(s)
      k == IF start < 0 THEN (IF len + start > 0 THEN len + start ELSE 0)
           ELSE (IF start < len THEN start ELSE len)
      f == IF end < 0 THEN (IF len + end > 0 THEN len + end ELSE 0)
           ELSE (IF end < len THEN end ELSE len)
  IN SubSeq(s, k + 1, f)

\* s.entity_id.startsWith(`${domain}.`)
InDomainLoose(s, domain) ==
  StartsWith(Prop(s, "entity_id").v, ToStr(domain))
InDomain(s, domain) ==
  StartsWith(Prop(s, "entity_id").v, ToStr(domain) \o <<".">>)

\* the line of one entity: id, em dash (written " -- "), state, (name)
EntityLine(s) ==
  LET name == OrElse(Prop(Prop(s, "attributes"), "friendly_name"),
                     Prop(s, "entity_id"))
  IN ToStr(Prop(s, "entity_id")) \o <<" -- ">> \o ToStr(Prop(s, "state"))
     \o <<" (">> \o ToStr(name) \o <<")">>

EntitiesBegin ==
  /\ Begin("ha_get_entities")
  /\ haApiRequest(<<"/states">>, Get)
  /\ loc' = [h |-> "ha_get_entities"]
  /\ UNCHANGED outcome

\* the handler after the awaited call has returned; states, filtered and
\* limited are the constants of the handler, each bound once
EntitiesResume ==
  /\ Resume("ha_get_entities")
  /\ \E states \in {call.val.v} :
     \E filtered \in {IF Truthy(args.domain)
                      THEN SelectSeq(states,
                                     LAMBDA s : InDomain(s, args.domain))
                      ELSE states} :
     \E limited \in {Slice(filtered, 0, args.limit.v)} :
       LET domain == args.domain
           lines == [i \in 1..Len(limited) |-> EntityLine(limited[i])]
           header == IF Truthy(domain)
                     THEN <<"Found ", ToString(Len(filtered)), " ">>
                          \o ToStr(domain) \o <<" entities">>
                     ELSE <<"Found ", ToString(Len(states)), " total entities">>
           showing == IF Len(limited) < Len(filtered)
                      THEN <<" (showing first ", ToString(Len(limited)), ")">>
                      ELSE <<>>
       IN /\ loc' = [h |-> "ha_get_entities", states |-> states,
                     filtered |-> filtered, limited |-> limited,
                     lines |-> lines, header |-> header, showing |-> showing]
          /\ outcome' = TextResult(header \o showing \o <<":\n\n">>
                                   \o Join(lines, <<"\n">>))
  /\ UNCHANGED reqs

----------------------------------------------------------------------------
(* Tool 3: ha_call_service *)

CallServiceSchema ==
  [domain |-> ZString, service |-> ZString, target |-> ZOptTarget,
   data |-> ZOptRecord]

\* Object.assign(body, data)
Assign(body, data) ==
  [k \in DOMAIN body \cup DOMAIN data |->
     IF k \in DOMAIN data THEN data[k] ELSE body[k]]

\* if (target.k) body.k = target.k, for the three target keys
TargetFields(target) ==
  [k \in {j \in DOMAIN target \cap TargetKeys : Truthy(target[j])} |->
     target[k]]

\* the request body the handler builds from target and data
ServiceBody(target, data) ==
  LET b0 == NoKeys
      b1 == IF Truthy(target) THEN Assign(b0, TargetFields(target.v)) ELSE b0
      b2 == IF Truthy(data) THEN Assign(b1, data.v) ELSE b1
  IN b2

CallServiceBegin ==
  /\ Begin("ha_call_service")
  /\ LET body == ServiceBody(args.target, args.data) IN
       /\ haApiRequest(<<"/services/">> \o ToStr(args.domain) \o <<"/">>
                         \o ToStr(args.service),
                       Post(IF DOMAIN body # {} THEN Obj(body) ELSE Undef))
       /\ loc' = [h |-> "ha_call_service", body |-> Obj(body)]
  /\ UNCHANGED outcome

CallServiceResume ==
  /\ Resume("ha_call_service")
  /\ LET result == call.val
         changed == IF result.t = "array" THEN Len(result.v) ELSE 0
     IN outcome' = TextResult(<<"Service ">> \o ToStr(args.domain) \o <<".">>
                     \o ToStr(args.service)
                     \o <<" called successfully. ", ToString(changed),
                          " entity state(s) changed.">>)
  /\ UNCHANGED <<loc, reqs>>

----------------------------------------------------------------------------
(* Tool 8: ha_restart *)

RestartSchemaOptional ==
  [confirm |-> [kind |-> "boolean", optional |-> TRUE, def |-> Undef]]
RestartSchema == [confirm |-> ZBoolean]

\* (the backquotes of the source text are written as apostrophes)
RestartCancelled ==
  <<"Restart cancelled. Set confirm=true to proceed. Consider running 'ha core check' first to validate configuration.">>
RestartInitiated ==
  <<"Home Assistant restart initiated. It will be unavailable briefly. Check logs after restart with ha_get_logs.">>

\* the handler up to its first await
RestartUngated ==
  /\ Begin("ha_restart")
  /\ haApiRequest(<<"/services/homeassistant/restart">>, Post(Undef))
  /\ loc' = [h |-> "ha_restart"]
  /\ UNCHANGED outcome
RestartBegin ==
  /\ Begin("ha_restart")
  /\ IF ~Truthy(args.confirm)
     THEN /\ outcome' = TextResult(RestartCancelled)
          /\ loc' = [h |-> "ha_restart"]
          /\ UNCHANGED <<reqs, call, stderr>>
     ELSE /\ haApiRequest(<<"/services/homeassistant/restart">>, Post(Undef))
          /\ loc' = [h |-> "ha_restart"]
          /\ UNCHANGED outcome

\* the handler after the awaited call has returned
RestartResume ==
  /\ Resume("ha_restart")
  /\ outcome' = TextResult(RestartInitiated)
  /\ UNCHANGED <<loc, reqs>>

----------------------------------------------------------------------------
(* Tool 9: ha_reload_config *)

\* Object.keys(RELOAD_MAP), in declaration order
ReloadKeys ==
  <<"automation", "script", "scene", "group", "input_boolean",
    "input_number", "input_select", "input_datetime", "input_text",
    "input_button", "timer", "counter", "schedule", "zone", "template",
    "person", "core">>

ReloadKeySet == {ReloadKeys[i] : i \in 1..Len(ReloadKeys)}

RELOAD_MAP ==
  [k \in ReloadKeySet |->
     IF k = "core" THEN <<"homeassistant/reload_core_config">>
     ELSE <<k, "/reload">>]

\* properties every plain object inherits from Object.prototype
ObjectPrototypeKeys ==
  {"constructor", "toString", "valueOf", "hasOwnProperty", "__proto__",
   "isPrototypeOf", "propertyIsEnumerable", "toLocaleString"}

\* the property key a string denotes
KeyOf(s) == IF s = <<>> THEN "" ELSE IF Len(s) = 1 THEN s[1] ELSE "<composite>"

\* RELOAD_MAP[domain]: own properties first, then the prototype chain
Lookup(map, d) ==
  IF KeyOf(d) \in DOMAIN map THEN Str(map[KeyOf(d)])
  ELSE IF KeyOf(d) \in ObjectPrototypeKeys THEN Inherited(KeyOf(d))
  ELSE Undef

ReloadSchema == [domain |-> ZString]

ReloadUnknownText(domain) ==
  <<"Unknown domain '">> \o domain \o <<"'. Supported: ">>
  \o Join([i \in 1..Len(ReloadKeys) |-> <<ReloadKeys[i]>>], <<", ">>)
ReloadSuccessText(domain) ==
  <<"Reloaded '">> \o domain \o <<"' configuration successfully.">>

\* the handler up to its first await
ReloadBegin ==
  /\ Begin("ha_reload_config")
  /\ LET endpoint == Lookup(RELOAD_MAP, args.domain.v) IN
     IF ~Truthy(endpoint)
     THEN /\ outcome' = TextResult(ReloadUnknownText(args.domain.v))
          /\ loc' = [h |-> "ha_reload_config"]
          /\ UNCHANGED <<reqs, call, stderr>>
     ELSE /\ haApiRequest(<<"/services/">> \o ToStr(endpoint), Post(Undef))
          /\ loc' = [h |-> "ha_reload_config"]
          /\ UNCHANGED outcome

\* the handler after the awaited call has returned
ReloadResume ==
  /\ Resume("ha_reload_config")
  /\ outcome' = TextResult(ReloadSuccessText(args.domain.v))
  /\ UNCHANGED <<loc, reqs>>

----------------------------------------------------------------------------
(* Tool 10: ha_get_logs *)

DefaultLines == 100

LogsSchema == [lines |-> ZNumberDefault(DefaultLines)]

\* String.prototype.split on a one-character separator
RECURSIVE Split(_, _)
Split(s, sep) ==
  IF \A i \in 1..Len(s) : s[i] # sep THEN <<s>>
  ELSE LET k == CHOOSE i \in 1..Len(s) :
                  s[i] = sep /\ \A j \in 1..(i - 1) : s[j] # sep
       IN <<SubSeq(s, 1, k - 1)>> \o Split(SubSeq(s, k + 1, Len(s)), sep)

LogsBegin ==
  /\ Begin("ha_get_logs")
  /\ supervisorApiRequest(<<"/core/logs">>, Options("GET", Undef, TRUE))
  /\ loc' = [h |-> "ha_get_logs"]
  /\ UNCHANGED outcome

\* allLines.slice(-lines)
LastLines(allLines, lines) == Slice(allLines, 0 - lines, Len(allLines))

LogsResume ==
  /\ Resume("ha_get_logs")
  /\ LET logs == call.val.v
         allLines == Split(logs, "\n")
         last == LastLines(allLines, args.lines.v)
     IN /\ loc' = [h |-> "ha_get_logs", logs |-> logs, allLines |-> allLines,
                   last |-> last]
        /\ outcome' = TextResult(<<"Home Assistant logs (last ",
                                   ToString(args.lines.v), " lines):\n\n">>
                                 \o Join(last, <<"\n">>))
  /\ UNCHANGED reqs

----------------------------------------------------------------------------
(* Tool 11: ha_get_history *)

DefaultHours == 24

HistorySchema == [entity_id |-> ZString, hours |-> ZNumberDefault(DefaultHours)]

MsPerSecond == 1000
MsPerMinute == 60000
MsPerHour == 3600000
MsPerDay == 86400000

\* decimal digits of n, zero-padded to two and three places
Pad2(n) == IF n < 10 THEN "0" \o ToString(n) ELSE ToString(n)
Pad3(n) == IF n < 10 THEN "00" \o ToString(n)
           ELSE IF n < 100 THEN "0" \o ToString(n) ELSE ToString(n)

\* month lengths of 1970
MonthDays == <<31, 28, 31, 30, 31, 30, 31, 31, 30, 31, 30, 31>>

\* month and day of month of the d-th day (from 0) of 1970
RECURSIVE MonthOf(_, _)
MonthOf(d, m) ==
  IF d < MonthDays[m] THEN <<m, d + 1>> ELSE MonthOf(d - MonthDays[m], m + 1)

\* Date.prototype.toISOString for an instant of 1970, in epoch milliseconds
ToISOString(ms) ==
  LET md == MonthOf(ms \div MsPerDay, 1)
      inDay == ms % MsPerDay
  IN <<"1970", "-", Pad2(md[1]), "-", Pad2(md[2]), "T",
       Pad2(inDay \div MsPerHour), ":",
       Pad2((inDay % MsPerHour) \div MsPerMinute), ":",
       Pad2((inDay % MsPerMinute) \div MsPerSecond), ".",
       Pad3(inDay % MsPerSecond), "Z">>

\* instants at which the handler may read the clock (epoch milliseconds)
Times ==
  {2 * MsPerDay, 2 * MsPerDay + 999, 3 * MsPerDay - 1,
   20 * MsPerDay + 13 * MsPerHour + 7 * MsPerMinute + 5 * MsPerSecond + 42}

\* new Date(now.getTime() - hours * 60 * 60 * 1000), in epoch milliseconds
HistoryStartSeconds(nowMs, hours) == nowMs - hours * 60 * 60
HistoryStart(nowMs, hours) == nowMs - hours * 60 * 60 * 1000

HistoryPath(startISO, entity_id) ==
  <<"/history/period/">> \o startISO \o <<"?filter_entity_id=">>
  \o ToStr(entity_id) \o <<"&no_attributes&minimal_response">>

\* x.length: defined on arrays and strings, undefined on other values,
\* a TypeError on undefined and null
HasProps(x) == x.t \notin {"undefined", "null"}
LengthOf(x) ==
  IF x.t \in {"array", "string"} THEN Num(Len(x.v)) ELSE Undef

\* x[0]
First(x) ==
  IF x.t = "array" /\ x.v # <<>> THEN x.v[1]
  ELSE IF x.t = "string" /\ x.v # <<>> THEN Str(<<x.v[1]>>)
  ELSE Undef

NoHistoryText(entity_id, hours) ==
  <<"No history found for ">> \o ToStr(entity_id)
  \o <<" in the last ", ToString(hours.v), " hours.">>

\* `${c.last_changed} -- ${c.state}` (em dash written " -- ")
ChangeLine(c) ==
  ToStr(Prop(c, "last_changed")) \o <<" -- ">> \o ToStr(Prop(c, "state"))

\* the outcome of the handler for the payload the adapter returned
HistoryOutcome(result, entity_id, hours) ==
  IF ~Truthy(result) \/ LengthOf(result) = Num(0)
  THEN TextResult(NoHistoryText(entity_id, hours))
  ELSE IF ~HasProps(First(result))
  THEN ErrorResult(<<"TypeError: Cannot read properties of ",
                     First(result).t, " (reading 'length')">>)
  ELSE IF LengthOf(First(result)) = Num(0)
  THEN TextResult(NoHistoryText(entity_id, hours))
  ELSE LET changes == First(result) IN
       IF changes.t # "array"
       THEN ErrorResult(<<"TypeError: changes.map is not a function">>)
       ELSE IF \E i \in 1..Len(changes.v) : ~HasProps(changes.v[i])
       THEN ErrorResult(<<"TypeError: Cannot read properties of null">>)
       ELSE TextResult(
              <<"History for ">> \o ToStr(entity_id)
              \o <<" (last ", ToString(hours.v), "h, ",
                   ToString(Len(changes.v)), " changes):\n\n">>
              \o Join([i \in 1..Len(changes.v) |-> ChangeLine(changes.v[i])],
                      <<"\n">>))

HistoryBegin ==
  /\ Begin("ha_get_history")
  /\ \E nowMs \in Times :
       LET start == HistoryStart(nowMs, args.hours.v)
           startISO == ToISOString(start)
       IN /\ haApiRequest(HistoryPath(startISO, args.entity_id), Get)
          /\ loc' = [h |-> "ha_get_history", now |-> nowMs, start |-> start,
                     startISO |-> startISO]
  /\ UNCHANGED outcome

HistoryResume ==
  /\ Resume("ha_get_history")
  /\ outcome' = HistoryOutcome(call.val, args.entity_id, args.hours)
  /\ loc' = [h |-> "ha_get_history", now |-> loc.now, start |-> loc.start,
             startISO |-> loc.startISO, result |-> call.val]
  /\ UNCHANGED reqs

----------------------------------------------------------------------------
(* Tool 2: ha_get_entity_state *)

EntityStateSchema == [entity_id |-> ZString]

\* JSON.stringify(x) as text, for strings, numbers, booleans, null and
\* objects of at most one key
RECURSIVE JsonText(_)
JsonText(x) ==
  CASE x.t = "string" -> <<"\"">> \o x.v \o <<"\"">>
    [] x.t = "object" ->
         IF DOMAIN x.v = {} THEN <<"{}">>
         ELSE LET k == CHOOSE j \in DOMAIN x.v : TRUE
              IN <<"{", "\"", k, "\"", ":">> \o JsonText(x.v[k]) \o <<"}">>
    [] OTHER -> ToStr(x)

\* Object.entries(o).map(([k, v]) => `  ${k}: ${JSON.stringify(v)}`), for
\* objects of at most one key
AttrLines(o) ==
  IF DOMAIN o.v = {} THEN <<>>
  ELSE LET k == CHOOSE j \in DOMAIN o.v : TRUE
       IN <<(<<"  ", k, ": ">> \o JsonText(o.v[k]))>>

EntityStateBegin ==
  /\ Begin("ha_get_entity_state")
  /\ haApiRequest(<<"/states/">> \o ToStr(args.entity_id), Get)
  /\ loc' = [h |-> "ha_get_entity_state"]
  /\ UNCHANGED outcome

EntityStateResume ==
  /\ Resume("ha_get_entity_state")
  /\ LET state == call.val IN
       outcome' =
         IF state.t # "object" \/ ~HasProps(Prop(state, "attributes"))
         THEN ErrorResult(<<"TypeError: Cannot convert undefined or null to object">>)
         ELSE TextResult(
                <<"Entity: ">> \o ToStr(Prop(state, "entity_id"))
                \o <<"\nState: ">> \o ToStr(Prop(state, "state"))
                \o <<"\nLast Changed: ">> \o ToStr(Prop(state, "last_changed"))
                \o <<"\nLast Updated: ">> \o ToStr(Prop(state, "last_updated"))
                \o <<"\n\nAttributes:\n">>
                \o Join(AttrLines(Prop(state, "attributes")), <<"\n">>))
  /\ UNCHANGED <<loc, reqs>>

----------------------------------------------------------------------------
(* Tools 4 and 5: ha_get_areas, ha_get_devices *)

AreasSchema == NoKeys
DevicesSchema == [area_id |-> ZOptString]

\* the Jinja scripts of the source, one chunk per literal piece
AreasTemplate == <<"{% set result = [] %}{% for area_id in areas() %}...{{ result | join('\\n') }}">>
AreaDevicesTemplate(area_id) ==
  <<"{% for device_id in area_devices('">> \o area_id
  \o <<"') %}{{ device_id }}: ... {% endfor %}">>
AllDevicesTemplate ==
  <<"{% set seen = [] %}{% for area_id in areas() %}{% for device_id in area_devices(area_id) %}{% if device_id not in seen %}...{% endif %}{% endfor %}{% endfor %}">>

AreasBegin ==
  /\ Begin("ha_get_areas")
  /\ haApiRequest(<<"/template">>,
                  Post(Obj([template |-> Str(AreasTemplate)])))
  /\ loc' = [h |-> "ha_get_areas"]
  /\ UNCHANGED outcome

AreasResume ==
  /\ Resume("ha_get_areas")
  /\ outcome' = TextResult(<<"Areas:\n\n">>
                   \o ToStr(OrElse(call.val, Str(<<"No areas defined.">>))))
  /\ UNCHANGED <<loc, reqs>>

DevicesBegin ==
  /\ Begin("ha_get_devices")
  /\ LET template == IF Truthy(args.area_id)
                     THEN AreaDevicesTemplate(ToStr(args.area_id))
                     ELSE AllDevicesTemplate
     IN haApiRequest(<<"/template">>, Post(Obj([template |-> Str(template)])))
  /\ loc' = [h |-> "ha_get_devices"]
  /\ UNCHANGED outcome

DevicesResume ==
  /\ Resume("ha_get_devices")
  /\ LET rendered == call.val
         label == IF Truthy(args.area_id)
                  THEN <<"Devices in area '">> \o ToStr(args.area_id) \o <<"'">>
                  ELSE <<"Devices">>
     IN outcome' =
          IF rendered.t # "string"
          THEN ErrorResult(<<"TypeError: rendered.trim is not a function">>)
          ELSE TextResult(label \o <<":\n\n">>
                 \o ToStr(OrElse(Str(Trim(rendered.v)),
                                 Str(<<"No devices found.">>))))
  /\ UNCHANGED <<loc, reqs>>

----------------------------------------------------------------------------
(* Tool 6: ha_get_automations *)

AutomationsSchema == NoKeys

AutomationLine(a) ==
  LET name == OrElse(Prop(Prop(a, "attributes"), "friendly_name"),
                     Prop(a, "entity_id"))
      lastTriggered == OrElse(Prop(Prop(a, "attributes"), "last_triggered"),
                              Str(<<"never">>))
  IN ToStr(Prop(a, "entity_id")) \o <<" -- ">> \o ToStr(Prop(a, "state"))
     \o <<" -- \"">> \o ToStr(name) \o <<"\" (last triggered: ">>
     \o ToStr(lastTriggered) \o <<")">>

AutomationsBegin ==
  /\ Begin("ha_get_automations")
  /\ haApiRequest(<<"/states">>, Get)
  /\ loc' = [h |-> "ha_get_automations"]
  /\ UNCHANGED outcome

AutomationsResume ==
  /\ Resume("ha_get_automations")
  /\ LET states == call.val.v
         automations ==
           SelectSeq(states, LAMBDA e : InDomain(e, Str(<<"automation">>)))
     IN outcome' =
          IF Len(automations) = 0
          THEN TextResult(<<"No automations found.">>)
          ELSE TextResult(
                 <<"Found ", ToString(Len(automations)), " automations:\n\n">>
                 \o Join([i \in 1..Len(automations) |->
                            AutomationLine(automations[i])], <<"\n">>))
  /\ UNCHANGED <<loc, reqs>>

----------------------------------------------------------------------------
(* Tool 7: ha_get_integrations *)

IntegrationsSchema == NoKeys

\* the component names the upstream may report, in alphabetical order
ComponentOrder == <<<<"h", "u", "e">>, <<"m", "q", "t", "t">>, <<"s", "u", "n">>>>

\* [...baseDomains].sort() for a set of names of ComponentOrder
Sorted(names) == SelectSeq(ComponentOrder, LAMBDA n : n \in names)

IntegrationsBegin ==
  /\ Begin("ha_get_integrations")
  /\ haApiRequest(<<"/config">>, Get)
  /\ loc' = [h |-> "ha_get_integrations"]
  /\ UNCHANGED outcome

IntegrationsResume ==
  /\ Resume("ha_get_integrations")
  /\ LET config == call.val
         components == Prop(config, "components").v
         baseDomains == {Split(components[i].v, ".")[1] :
                           i \in 1..Len(components)}
         sorted == Sorted(baseDomains)
     IN outcome' = TextResult(
          <<"HA Version: ">> \o ToStr(Prop(config, "version"))
          \o <<"\n", ToString(Len(sorted)), " integrations installed:\n\n">>
          \o Join(sorted, <<", ">>))
  /\ UNCHANGED <<loc, reqs>>

----------------------------------------------------------------------------
(* Tool 12: ha_fire_event *)

FireEventSchema == [event_type |-> ZString, event_data |-> ZOptRecord]

FireEventBegin ==
  /\ Begin("ha_fire_event")
  /\ haApiRequest(<<"/events/">> \o ToStr(args.event_type),
                  Post(OrElse(args.event_data, Obj(NoKeys))))
  /\ loc' = [h |-> "ha_fire_event"]
  /\ UNCHANGED outcome

FireEventResume ==
  /\ Resume("ha_fire_event")
  /\ outcome' = TextResult(
       <<"Event '">> \o ToStr(args.event_type) \o <<"' fired successfully.">>
       \o (IF Truthy(args.event_data)
           THEN <<" Data: ">> \o JsonText(args.event_data) ELSE <<>>))
  /\ UNCHANGED <<loc, reqs>>

----------------------------------------------------------------------------
(* Tool 13: ha_render_template *)

TemplateSchema == [template |-> ZString]

RenderBegin ==
  /\ Begin("ha_render_template")
  /\ haApiRequest(<<"/template">>, Post(Obj([template |-> args.template])))
  /\ loc' = [h |-> "ha_render_template"]
  /\ UNCHANGED outcome

\* the text of the result for the payload the adapter returned
RenderTextTrimmed(result) == <<"Template result:\n\n">> \o Trim(ToStr(result))
RenderText(result) == <<"Template result:\n\n">> \o ToStr(result)

RenderResume ==
  /\ Resume("ha_render_template")
  /\ outcome' = TextResult(RenderText(call.val))
  /\ loc' = [h |-> "ha_render_template", result |-> call.val]
  /\ UNCHANGED reqs

----------------------------------------------------------------------------
(* Server frontend: one invocation at a time *)

Tools ==
  {"ha_get_entities", "ha_get_entity_state", "ha_call_service",
   "ha_get_areas", "ha_get_devices", "ha_get_automations",
   "ha_get_integrations", "ha_restart", "ha_reload_config", "ha_get_logs",
   "ha_get_history", "ha_fire_event", "ha_render_template"}

\* the input schema registered with each tool
Schema(tool) ==
  CASE tool = "ha_get_entities" -> EntitiesSchema
    [] tool = "ha_get_entity_state" -> EntityStateSchema
    [] tool = "ha_call_service" -> CallServiceSchema
    [] tool = "ha_get_areas" -> AreasSchema
    [] tool = "ha_get_devices" -> DevicesSchema
    [] tool = "ha_get_automations" -> AutomationsSchema
    [] tool = "ha_get_integrations" -> IntegrationsSchema
    [] tool = "ha_fire_event" -> FireEventSchema
    [] tool = "ha_restart" -> RestartSchema
    [] tool = "ha_reload_config" -> ReloadSchema
    [] tool = "ha_get_logs" -> LogsSchema
    [] tool = "ha_get_history" -> HistorySchema
    [] tool = "ha_render_template" -> TemplateSchema

\* the arguments object satisfies the schema of the tool
SchemaAccepts(tool, a) ==
  \A k \in DOMAIN Schema(tool) : ZodAccepts(Schema(tool)[k], Field(a, k))

\* the parsed arguments handed to the handler
SchemaParse(tool, a) ==
  [k \in DOMAIN Schema(tool) |-> ZodParse(Schema(tool)[k], Field(a, k))]


\* entity states the upstream may report
Entity(id, state, attrs) ==
  Obj([entity_id |-> Str(id), state |-> Str(state), attributes |-> Obj(attrs)])

Entities ==
  {Entity(<<"a", ".", "b">>, <<"on">>, [friendly_name |-> Str(<<"K">>)]),
   Entity(<<"a", "b", ".", "a">>, <<"off">>, NoKeys),
   Entity(<<"a", ".", "b", ".", "a">>, <<"on">>, [friendly_name |-> Str(<<>>)])}

StateLists == SeqsUpTo(Entities, MaxStates)

\* domain strings an agent may pass
DomainSamples ==
  {<<>>, <<"a">>, <<"b">>, <<"a", "b">>, <<"a", ".", "b">>, <<"a", ".">>}

Limits == (0 - MaxLimit)..MaxLimit

\* argument objects an agent may send, valid and invalid
EntitiesArgs ==
  {[domain |-> Str(d), limit |-> Num(n)] : d \in DomainSamples, n \in Limits}
  \cup {[domain |-> Str(d)] : d \in DomainSamples}
  \cup {[limit |-> Num(n)] : n \in Limits}
  \cup {NoKeys, [domain |-> Num(1)], [limit |-> Str(<<"1">>)]}

TargetValues == {Str(<<>>), Str(<<"x">>), Arr(<<Str(<<"x">>)>>)}
DataKeys == {"entity_id", "brightness_pct"}
DataValues == {Str(<<"y">>), Num(0)}

\* all objects with keys among K and values among V
Objects(K, V) == UNION {{Obj(f) : f \in [J -> V]} : J \in SUBSET K}

CallServiceArgs ==
  {[domain |-> Str(<<"light">>), service |-> Str(<<"turn_on">>),
    target |-> t, data |-> d] :
     t \in Objects(TargetKeys, TargetValues) \cup {Undef},
     d \in Objects(DataKeys, DataValues) \cup {Undef}}
  \cup {[domain |-> Str(<<"light">>)],
        [domain |-> Str(<<"light">>), service |-> Num(1)],
        [domain |-> Str(<<"light">>), service |-> Str(<<"turn_on">>),
         target |-> Str(<<"light.x">>)],
        [domain |-> Str(<<"light">>), service |-> Str(<<"turn_on">>),
         target |-> Obj([entity_id |-> Num(1)])],
        [domain |-> Str(<<"light">>), service |-> Str(<<"turn_on">>),
         data |-> Arr(<<>>)]}

RestartArgs ==
  {[confirm |-> c] : c \in {Bool(TRUE), Bool(FALSE), Str(<<"true">>), Num(1)}}
  \cup {NoKeys}

ReloadArgs ==
  {[domain |-> Str(<<k>>)] :
     k \in ReloadKeySet \cup {"constructor", "toString", "__proto__", "light"}}
  \cup {[domain |-> Str(<<>>)], [domain |-> Num(1)], NoKeys}

LogsArgs ==
  {[lines |-> Num(n)] : n \in Limits} \cup {NoKeys, [lines |-> Str(<<"5">>)]}

TemplateArgs ==
  {[template |-> Str(<<"{{ states('sensor.t') }}">>)], [template |-> Str(<<>>)],
   [template |-> Num(1)], NoKeys}

Hours == (0 - MaxHours)..MaxHours

HistoryArgs ==
  {[entity_id |-> Str(<<"sensor.t">>), hours |-> Num(n)] : n \in Hours}
  \cup {[entity_id |-> Str(<<"sensor.t">>)], [hours |-> Num(1)],
        [entity_id |-> Str(<<"sensor.t">>), hours |-> Str(<<"1">>)]}

EntityStateArgs ==
  {[entity_id |-> Str(<<"light.k">>)], [entity_id |-> Num(1)], NoKeys}

DevicesArgs ==
  {NoKeys, [area_id |-> Str(<<"kitchen">>)], [area_id |-> Str(<<>>)],
   [area_id |-> Num(1)]}

FireEventArgs ==
  {[event_type |-> Str(<<"my_event">>)],
   [event_type |-> Str(<<"my_event">>), event_data |-> Obj(NoKeys)],
   [event_type |-> Str(<<"my_event">>),
    event_data |-> Obj([k |-> Str(<<"v">>)])],
   [event_type |-> Str(<<"my_event">>), event_data |-> Str(<<"v">>)],
   [event_data |-> Obj(NoKeys)]}

\* tools registered with an empty schema take any arguments object
AnyArgs == {NoKeys, [extra |-> Num(1)]}

ArgsOf(tool) ==
  CASE tool = "ha_get_entities" -> EntitiesArgs
    [] tool = "ha_get_entity_state" -> EntityStateArgs
    [] tool = "ha_call_service" -> CallServiceArgs
    [] tool = "ha_get_areas" -> AnyArgs
    [] tool = "ha_get_devices" -> DevicesArgs
    [] tool = "ha_get_automations" -> AnyArgs
    [] tool = "ha_get_integrations" -> AnyArgs
    [] tool = "ha_fire_event" -> FireEventArgs
    [] tool = "ha_restart" -> RestartArgs
    [] tool = "ha_reload_config" -> ReloadArgs
    [] tool = "ha_get_logs" -> LogsArgs
    [] tool = "ha_get_history" -> HistoryArgs
    [] tool = "ha_render_template" -> TemplateArgs

\* upstream responses to the request of a tool
ErrorResponses ==
  {Response(s, "text/plain", RawText(b)) :
     s \in {404, 500}, b \in {<<>>, <<"e">>}}

EmptyOkResponses == {Response(200, "application/json", JsonOf(Arr(<<>>)))}

StatesResponses ==
  {Response(200, "application/json", JsonOf(Arr(S))) : S \in StateLists}

ServiceResponses ==
  {Response(200, "application/json", JsonOf(v)) :
     v \in {Arr(<<>>), Arr(<<Obj(NoKeys)>>), Obj(NoKeys)}}

\* log texts; the supervisor may label them as JSON
LogTexts == SeqsUpTo({"x", "\n"}, MaxLogLen)
LogsResponses ==
  {Response(200, c, RawText(t)) :
     c \in {"text/plain", "application/json"}, t \in LogTexts}

\* renderings of a template, as plain text or labelled as JSON
RenderedTexts == SeqsUpTo({"x", " ", "\""}, MaxRendered)
RenderResponses ==
  {Response(200, c, RawText(t)) :
     c \in {"text/plain", "application/json"}, t \in RenderedTexts}

\* history payloads: well-formed, empty and malformed
Change(at, state) == Obj([last_changed |-> Str(at), state |-> Str(state)])
Changes == {Change(<<"t1">>, <<"on">>), Change(<<"t2">>, <<"off">>)}
ChangeLists == SeqsUpTo(Changes, MaxChanges)

HistoryPayloads ==
  {Arr(<<Arr(c)>>) : c \in ChangeLists}
  \cup {Null, Arr(<<>>), Arr(<<Null>>), Arr(<<Num(5)>>), Arr(<<Obj(NoKeys)>>),
        Arr(<<Str(<<>>)>>), Arr(<<Str(<<"a", "b">>)>>), Arr(<<Arr(<<Null>>)>>),
        Obj(NoKeys), Obj([message |-> Str(<<"x">>)])}

HistoryResponses ==
  {Response(200, "application/json", JsonOf(v)) : v \in HistoryPayloads}
  \cup {Response(200, "text/plain", RawText(t)) : t \in {<<>>, <<"a", "b">>}}

EntityStateResponses ==
  {Response(200, "application/json", JsonOf(v)) :
     v \in {Obj([entity_id |-> Str(<<"light.k">>), state |-> Str(<<"on">>),
                 last_changed |-> Str(<<"t1">>), last_updated |-> Str(<<"t2">>),
                 attributes |-> Obj(a)]) :
              a \in {NoKeys, [brightness |-> Num(80)],
                     [friendly_name |-> Str(<<"K">>)]}}
           \cup {Obj([message |-> Str(<<"x">>)])}}

AutomationEntities ==
  {Entity(<<"automation", ".", "a">>, <<"on">>,
          [friendly_name |-> Str(<<"A">>), last_triggered |-> Str(<<"t1">>)]),
   Entity(<<"automation", ".", "b">>, <<"off">>, NoKeys),
   Entity(<<"a", ".", "b">>, <<"on">>, NoKeys)}

AutomationsResponses ==
  {Response(200, "application/json", JsonOf(Arr(S))) :
     S \in SeqsUpTo(AutomationEntities, MaxAutomations)}

ComponentNames ==
  {<<"h", "u", "e">>, <<"h", "u", "e", ".", "l">>, <<"m", "q", "t", "t">>,
   <<"s", "u", "n">>}

ConfigResponses ==
  {Response(200, "application/json",
            JsonOf(Obj([version |-> Str(<<"2024.1">>),
                        components |-> Arr([i \in 1..Len(c) |-> Str(c[i])])]))) :
     c \in SeqsUpTo(ComponentNames, MaxComponents)}

ResponsesOf(tool) ==
  ErrorResponses \cup
  CASE tool = "ha_get_entities" -> StatesResponses
    [] tool = "ha_get_entity_state" -> EntityStateResponses
    [] tool = "ha_call_service" -> ServiceResponses
    [] tool = "ha_get_areas" -> RenderResponses
    [] tool = "ha_get_devices" -> RenderResponses
    [] tool = "ha_get_automations" -> AutomationsResponses
    [] tool = "ha_get_integrations" -> ConfigResponses
    [] tool = "ha_fire_event" -> EmptyOkResponses
    [] tool = "ha_restart" -> EmptyOkResponses
    [] tool = "ha_reload_config" -> EmptyOkResponses
    [] tool = "ha_get_logs" -> LogsResponses
    [] tool = "ha_get_history" -> HistoryResponses
    [] tool = "ha_render_template" -> RenderResponses

\* the credential the process may have been started with
Tokens == {Str(<<"t0k3n">>), Undef}

\* callers that may have an adapter call in flight at the same time
CallIds == 1..MaxCalls

MissingTokenWarning ==
  "WARNING: SUPERVISOR_TOKEN not set. HA API calls will fail."
RunningText == "Home Assistant MCP Server running on stdio"

\* what the load of ha-client.ts writes to the diagnostic channel
ClientLoad(token) ==
  IF ~Truthy(token) THEN <<MissingTokenWarning>> ELSE <<>>

NoFlight == [call |-> NoCall, req |-> Undef, ctl |-> 0]

\* the process after the modules are loaded and main() has connected
Loaded ==
  /\ SUPERVISOR_TOKEN \in Tokens
  /\ stderr = ClientLoad(SUPERVISOR_TOKEN) \o <<RunningText>>
  /\ flights = [c \in CallIds |-> NoFlight]

Init ==
  /\ Loaded
  /\ phase = "Idle"
  /\ inv = [tool |-> "none", args |-> NoKeys]
  /\ args = NoKeys
  /\ entered = FALSE
  /\ loc = NoLoc
  /\ reqs = <<>>
  /\ resps = <<>>
  /\ call = NoCall
  /\ outcome = NoOutcome

\* a tools/call request arrives
Receive ==
  /\ phase = "Idle"
  /\ \E tool \in Tools : \E a \in ArgsOf(tool) :
       inv' = [tool |-> tool, args |-> a]
  /\ phase' = "Receiving"
  /\ UNCHANGED <<args, entered, loc, reqs, resps, call, outcome, SUPERVISOR_TOKEN, stderr,
                 flights>>

\* the frontend starts validating the arguments against the schema
Validate ==
  /\ phase = "Receiving"
  /\ phase' = "Validating"
  /\ UNCHANGED <<inv, args, entered, loc, reqs, resps, call, outcome, SUPERVISOR_TOKEN, stderr,
                 flights>>

\* validation fails: structured error, the handler is not invoked
Reject ==
  /\ phase = "Validating"
  /\ outcome.kind = "none"
  /\ ~SchemaAccepts(inv.tool, inv.args)
  /\ outcome' = ErrorResult(<<"Invalid arguments for tool ", inv.tool>>)
  /\ UNCHANGED <<phase, inv, args, entered, loc, reqs, resps, call, SUPERVISOR_TOKEN, stderr,
                 flights>>

\* validation succeeds: the parsed arguments go to the handler
Dispatch ==
  /\ phase = "Validating"
  /\ outcome.kind = "none"
  /\ SchemaAccepts(inv.tool, inv.args)
  /\ args' = SchemaParse(inv.tool, inv.args)
  /\ phase' = "Dispatching"
  /\ UNCHANGED <<inv, entered, loc, reqs, resps, call, outcome, SUPERVISOR_TOKEN, stderr,
                 flights>>

\* what no step of the adapter or of the upstream changes
Invocation ==
  <<phase, inv, args, entered, loc, reqs, outcome, SUPERVISOR_TOKEN, stderr,
    flights>>

\* fetch() resolves with the status line and headers of an upstream response
FetchResolve ==
  /\ call.st = "pending"
  /\ \E r \in ResponsesOf(inv.tool) : call' = OnResponse(call, r)
  /\ UNCHANGED resps
  /\ UNCHANGED Invocation

\* fetch() rejects: the network failed before a response arrived
FetchReject ==
  /\ call.st = "pending"
  /\ call' = OnFetchRejected(call, NetworkError)
  /\ UNCHANGED resps
  /\ UNCHANGED Invocation

\* the body has arrived: the adapter checks the status and decodes it
AdapterSettle ==
  /\ call.st = "response"
  /\ call' = OnBody(call, reqs[Len(reqs)])
  /\ resps' = Append(resps, call.val.response)
  /\ UNCHANGED Invocation

\* the connection breaks while the body is read
BodyReject ==
  /\ call.st = "response"
  /\ call' = OnBodyRejected(call, reqs[Len(reqs)], NetworkError)
  /\ UNCHANGED resps
  /\ UNCHANGED Invocation

\* the timeout of the call elapses while its timer is pending
TimerFire ==
  /\ call.timer = "armed"
  /\ call' = Expired(call, reqs[Len(reqs)])
  /\ UNCHANGED resps
  /\ UNCHANGED Invocation

\* a handler that would catch the error and return it as a text result
HandlerCatch ==
  /\ phase = "Dispatching"
  /\ call.st = "threw"
  /\ outcome' = TextResult(<<"Error: ">> \o call.val.v)
  /\ call' = NoCall
  /\ UNCHANGED <<phase, inv, args, entered, loc, reqs, resps, SUPERVISOR_TOKEN,
                 stderr, flights>>

\* a handler that would issue its request again after a failure
HandlerRetry ==
  /\ phase = "Dispatching"
  /\ call.st = "threw"
  /\ IF Len(reqs) < 2
     THEN /\ reqs' = Append(reqs, reqs[Len(reqs)])
          /\ call' = Started("HA API",
                             Options(reqs[Len(reqs)].method, Undef, FALSE))
          /\ UNCHANGED outcome
     ELSE /\ outcome' = ErrorResult(call.val.v)
          /\ call' = NoCall
          /\ UNCHANGED reqs
  /\ UNCHANGED <<phase, inv, args, entered, loc, resps, SUPERVISOR_TOKEN,
                 stderr, flights>>

\* the adapter call threw: no handler catches, the frontend reports the error
HandlerThrow ==
  /\ phase = "Dispatching"
  /\ call.st = "threw"
  /\ outcome' = ErrorResult(call.val.v)
  /\ call' = NoCall
  /\ UNCHANGED <<phase, inv, args, entered, loc, reqs, resps, SUPERVISOR_TOKEN, stderr,
                 flights>>

\* the frontend sends the outcome and is idle again; nothing of the
\* invocation is retained
Reply ==
  /\ phase \in {"Validating", "Dispatching"}
  /\ outcome.kind # "none"
  /\ phase' = "Idle"
  /\ inv' = [tool |-> "none", args |-> NoKeys]
  /\ args' = NoKeys
  /\ entered' = FALSE
  /\ loc' = NoLoc
  /\ reqs' = <<>>
  /\ resps' = <<>>
  /\ call' = NoCall
  /\ outcome' = NoOutcome
  /\ UNCHANGED <<SUPERVISOR_TOKEN, stderr, flights>>

Next ==
  \/ Receive
  \/ Validate
  \/ Reject
  \/ Dispatch
  \/ EntitiesBegin
  \/ EntitiesResume
  \/ EntityStateBegin
  \/ EntityStateResume
  \/ CallServiceBegin
  \/ CallServiceResume
  \/ AreasBegin
  \/ AreasResume
  \/ DevicesBegin
  \/ DevicesResume
  \/ AutomationsBegin
  \/ AutomationsResume
  \/ IntegrationsBegin
  \/ IntegrationsResume
  \/ RestartBegin
  \/ RestartResume
  \/ ReloadBegin
  \/ ReloadResume
  \/ LogsBegin
  \/ LogsResume
  \/ HistoryBegin
  \/ HistoryResume
  \/ FireEventBegin
  \/ FireEventResume
  \/ RenderBegin
  \/ RenderResume
  \/ FetchResolve
  \/ FetchReject
  \/ AdapterSettle
  \/ BodyReject
  \/ TimerFire
  \/ HandlerThrow
  \/ Reply

Spec == Init /\ [][Next]_vars

----------------------------------------------------------------------------
(* Properties *)

\* the handler of the tool has run and the outcome of the invocation is set
Completed(tool) ==
  inv.tool = tool /\ entered /\ outcome.kind # "none"

\* every request of the invocation was answered upstream with a 2xx status
UpstreamOk ==
  Len(resps) = Len(reqs) /\ \A i \in 1..Len(resps) : ResponseOk(resps[i])

\* C1: with the upstream answering 2xx, ha_reload_config(domain) returns the
\* success confirmation if and only if domain is one of the 17 declared keys
\* of the reload table; for any other string it returns the "Unknown domain"
\* text listing the declared keys and issues no upstream request.
C1_ReloadSuccessIffDeclared ==
  (Completed("ha_reload_config") /\ UpstreamOk) =>
    LET d == args.domain.v IN
      /\ Len(ReloadKeys) = 17
      /\ (outcome = TextResult(ReloadSuccessText(d))
            <=> KeyOf(d) \in ReloadKeySet)
      /\ (KeyOf(d) \notin ReloadKeySet
            => /\ outcome = TextResult(ReloadUnknownText(d))
               /\ reqs = <<>>)

\* C2: ha_restart with confirm=false issues no upstream request and returns
\* the 'cancelled' text as a normal result; with confirm=true it issues
\* exactly one upstream request, POST /services/homeassistant/restart,
\* whether that request succeeds or fails.
C2_RestartGate ==
  (inv.tool = "ha_restart" /\ entered) =>
    /\ args.confirm = Bool(FALSE)
         => reqs = <<>> /\ outcome = TextResult(RestartCancelled)
    /\ args.confirm = Bool(TRUE)
         => /\ Len(reqs) = 1
            /\ reqs[1].method = "POST"
            /\ reqs[1].url = HA_API_BASE \o <<"/services/homeassistant/restart">>

\* a confirmed restart whose only request failed upstream
C2_Witness ==
  /\ Completed("ha_restart")
  /\ args.confirm = Bool(TRUE)
  /\ Len(reqs) = 1
  /\ Len(resps) = 1 /\ ~ResponseOk(resps[1])
  /\ outcome.kind = "error"


\* the chunks of s before its first "."
RECURSIVE PrefixToDot(_)
PrefixToDot(s) ==
  IF s = <<>> \/ Head(s) = "." THEN <<>>
  ELSE <<Head(s)>> \o PrefixToDot(Tail(s))

\* the state list the upstream returned to the invocation
UpstreamStates == resps[1].body.json.v

\* the entity lines of the text result
ListedLines == loc.lines

\* the number of entities of S whose identifier prefix is d
PrefixCount(S, d) ==
  Cardinality({i \in 1..Len(S) : PrefixToDot(S[i].v.entity_id.v) = d})

\* ha_get_entities returned its listing, the domain argument being a string
EntitiesListedFor ==
  /\ Completed("ha_get_entities")
  /\ outcome.kind = "text"
  /\ args.domain.t = "string"

\* C3 (as stated): for every domain string d and every upstream state list S,
\* ha_get_entities(domain=d) lists only entities whose identifier prefix up
\* to the first '.' equals d, and the count in the header equals the length
\* of the unfiltered list S.
C3_DomainFilterTotalCount ==
  EntitiesListedFor =>
    /\ \A i \in 1..Len(ListedLines) :
         PrefixToDot(ListedLines[i]) = args.domain.v
    /\ outcome.text[2] = ToString(Len(UpstreamStates))

\* C3 (amended): for every non-empty domain string d without '.', only
\* entities whose identifier prefix equals d are listed and the count in the
\* header is the number of entities of S with that prefix (the filtered
\* count); the header counts the whole list S when no domain is given.
C3_DomainFilterFilteredCount ==
  /\ (EntitiesListedFor /\ args.domain.v # <<>>
        /\ \A i \in 1..Len(args.domain.v) : args.domain.v[i] # ".")
     => /\ \A i \in 1..Len(ListedLines) :
             PrefixToDot(ListedLines[i]) = args.domain.v
        /\ outcome.text[2]
             = ToString(PrefixCount(UpstreamStates, args.domain.v))
  /\ (Completed("ha_get_entities") /\ outcome.kind = "text"
        /\ args.domain.t = "undefined")
     => outcome.text[2] = ToString(Len(UpstreamStates))

\* a domain filter that keeps some entities of the list and drops others
C3_Witness ==
  /\ EntitiesListedFor
  /\ args.domain.v = <<"a">>
  /\ Len(ListedLines) = 1
  /\ Len(UpstreamStates) = 3
  /\ outcome.text[2] = "1"

\* C4: for every number n accepted as limit (0 and negative values
\* included), ha_get_entities(limit=n) returns at most n entity lines, and
\* the "(showing first ...)" annotation is in the header if and only if the
\* filtered count exceeds n.
C4_LimitBoundsLines ==
  (Completed("ha_get_entities") /\ outcome.kind = "text") =>
    /\ Len(ListedLines) <= args.limit.v
    /\ (loc.showing # <<>> <=> Len(loc.filtered) > args.limit.v)


\* the keys of an optional object argument
KeysOf(x) == IF x.t = "object" THEN DOMAIN x.v ELSE {}

\* the body of the first request as posted: the value the JSON text denotes
PostedBody ==
  IF IsJsonBody(reqs[1].body) THEN reqs[1].body.json.v ELSE NoKeys

\* C5: the posted body of ha_call_service contains every key present in
\* target (whatever its value, the empty string included) and every key of
\* data when the two key sets are disjoint; a key present in both carries
\* data's value.
C5_MergeKeepsKeys ==
  (inv.tool = "ha_call_service" /\ entered /\ Len(reqs) >= 1) =>
    LET T == KeysOf(args.target)
        D == KeysOf(args.data)
    IN /\ (T \cap D = {} =>
             /\ \A k \in T : k \in DOMAIN PostedBody
                             /\ PostedBody[k] = args.target.v[k]
             /\ \A k \in D : k \in DOMAIN PostedBody
                             /\ PostedBody[k] = args.data.v[k])
       /\ \A k \in T \cap D : k \in DOMAIN PostedBody
                              /\ PostedBody[k] = args.data.v[k]


\* the text the upstream sent in answer to the first request
UpstreamText == resps[1].body.raw

\* C6 (as stated): the text result of ha_render_template(t) is exactly the
\* upstream rendering r of t.
C6_RenderVerbatim ==
  (Completed("ha_render_template") /\ outcome.kind = "text")
    => outcome.text = UpstreamText

\* C6 (amended): when the upstream delivers the rendering r as plain text,
\* the text result is the fixed heading "Template result:" and an empty line
\* followed by exactly r, an empty r included.
C6_RenderHeadingThenVerbatim ==
  (Completed("ha_render_template") /\ outcome.kind = "text"
     /\ resps[1].ctype # "application/json")
    => outcome.text = <<"Template result:\n\n">> \o UpstreamText

\* a rendering with surrounding blanks returned under the heading
C6_Witness ==
  /\ Completed("ha_render_template")
  /\ outcome.kind = "text"
  /\ resps[1].ctype = "text/plain"
  /\ UpstreamText = <<" ", "x", " ">>
  /\ outcome = TextResult(<<"Template result:\n\n", " ", "x", " ">>)

\* C7: for every number n accepted as lines (0 and negative values
\* included), ha_get_logs(lines=n) returns the last n entries of the log
\* split on newlines: at most n entries, and exactly the final n when the log
\* has at least n.
C7_LastNLines ==
  (Completed("ha_get_logs") /\ outcome.kind = "text") =>
    LET all == Split(UpstreamText, "\n")
        n == args.lines.v
    IN /\ Len(loc.last) <= n
       /\ (Len(all) >= n =>
             loc.last = [i \in 1..n |-> all[Len(all) - n + i]])


\* the payload shapes C8 lists as empty or malformed
EmptyOrMalformed(v) ==
  \/ v.t = "null"
  \/ v.t = "array" /\ v.v = <<>>
  \/ v.t = "array" /\ v.v # <<>> /\ v.v[1].t = "array" /\ v.v[1].v = <<>>
  \/ v.t = "array" /\ v.v # <<>> /\ v.v[1].t # "array"
  \/ v.t = "object"
  \/ v.t = "string"

\* C8: for every 2xx payload returned to ha_get_history that is empty or
\* malformed (null, empty array, array whose first element is empty, null or
\* not an array, a non-array object, a plain string), the invocation returns
\* the normal "No history found" text result and does not end in an error.
C8_MalformedHistoryIsNoHistory ==
  (Completed("ha_get_history") /\ UpstreamOk /\ "result" \in DOMAIN loc
     /\ EmptyOrMalformed(loc.result))
    => outcome = TextResult(NoHistoryText(args.entity_id, args.hours))

\* the number a zero-padded decimal field denotes
Unpad2(c) == CHOOSE n \in 0..99 : Pad2(n) = c
Unpad3(c) == CHOOSE n \in 0..999 : Pad3(n) = c

\* days of 1970 before the first day of month m
RECURSIVE DaysBefore(_)
DaysBefore(m) == IF m = 1 THEN 0 ELSE DaysBefore(m - 1) + MonthDays[m - 1]

\* the instant (epoch milliseconds) an ISO timestamp of 1970 denotes
ParseISO(c) ==
  (DaysBefore(Unpad2(c[3])) + Unpad2(c[5]) - 1) * MsPerDay
  + Unpad2(c[7]) * MsPerHour + Unpad2(c[9]) * MsPerMinute
  + Unpad2(c[11]) * MsPerSecond + Unpad3(c[13])

\* the start timestamp in the path of the history request
StartInPath == SubSeq(reqs[1].endpoint, 2, 15)

\* C9: the start timestamp ha_get_history places in the history request path
\* is the invocation time T minus h hours (h * 3600 seconds), accurate to the
\* second.
C9_StartIsNowMinusHours ==
  (inv.tool = "ha_get_history" /\ entered /\ Len(reqs) >= 1) =>
    /\ reqs[1].endpoint[1] = "/history/period/"
    /\ StartInPath[1] = "1970" /\ StartInPath[14] = "Z"
    /\ ParseISO(StartInPath) \div MsPerSecond
         = (loc.now - args.hours.v * 3600 * MsPerSecond) \div MsPerSecond

\* two hours before 1970-01-03T00:00:00.999Z
C9_Witness ==
  /\ inv.tool = "ha_get_history" /\ entered /\ Len(reqs) = 1
  /\ loc.now = 2 * MsPerDay + 999
  /\ args.hours.v = 2
  /\ StartInPath = <<"1970", "-", "01", "-", "02", "T", "22", ":", "00", ":",
                     "00", ".", "999", "Z">>


\* the type of the argument k as received
TypeOfArg(k) == Field(inv.args, k).t

\* the received arguments break the declared type of a required or optional
\* parameter of the invoked tool
IllTyped ==
  \/ /\ inv.tool = "ha_get_entities"
     /\ \/ TypeOfArg("domain") \notin {"string", "undefined"}
        \/ TypeOfArg("limit") \notin {"number", "undefined"}
  \/ inv.tool = "ha_get_entity_state" /\ TypeOfArg("entity_id") # "string"
  \/ /\ inv.tool = "ha_call_service"
     /\ \/ TypeOfArg("domain") # "string"
        \/ TypeOfArg("service") # "string"
        \/ TypeOfArg("target") \notin {"object", "undefined"}
        \/ TypeOfArg("data") \notin {"object", "undefined"}
        \/ /\ TypeOfArg("target") = "object"
           /\ \E k \in DOMAIN inv.args.target.v \cap TargetKeys :
                inv.args.target.v[k].t \notin {"string", "array", "undefined"}
  \/ inv.tool = "ha_get_devices"
       /\ TypeOfArg("area_id") \notin {"string", "undefined"}
  \/ inv.tool = "ha_restart" /\ TypeOfArg("confirm") # "boolean"
  \/ inv.tool = "ha_reload_config" /\ TypeOfArg("domain") # "string"
  \/ inv.tool = "ha_get_logs"
       /\ TypeOfArg("lines") \notin {"number", "undefined"}
  \/ /\ inv.tool = "ha_get_history"
     /\ \/ TypeOfArg("entity_id") # "string"
        \/ TypeOfArg("hours") \notin {"number", "undefined"}
  \/ /\ inv.tool = "ha_fire_event"
     /\ \/ TypeOfArg("event_type") # "string"
        \/ TypeOfArg("event_data") \notin {"object", "undefined"}
  \/ inv.tool = "ha_render_template" /\ TypeOfArg("template") # "string"

\* C10: an invocation whose arguments fail the declared input schema of its
\* operation is answered with a structured error; its handler is never
\* entered and no upstream request is issued for it.
C10_InvalidArgsRejected ==
  IllTyped =>
    /\ ~entered
    /\ phase # "Dispatching"
    /\ reqs = <<>>
    /\ outcome.kind \in {"none", "error"}

\* a restart without its confirm flag has been answered with an error
C10_Witness ==
  /\ inv.tool = "ha_restart"
  /\ inv.args = NoKeys
  /\ phase = "Validating"
  /\ outcome.kind = "error"
  /\ ~entered /\ reqs = <<>>

----------------------------------------------------------------------------
(* Several adapter calls in flight at once: the adapter functions called   *)
(* by concurrent callers, each call with its own request, controller and   *)
(* timer (the local variables of the function)                             *)

InFlight(c) == c.st \in {"pending", "response"}
Complete(c) == c.st \in {"returned", "threw"}

\* the calls the concurrent callers start
ConcStarts ==
  {StartCall("HA API", HA_API_BASE, <<"/states">>, Get),
   StartCall("Supervisor API", SUPERVISOR_API_BASE, <<"/core/logs">>,
             Options("GET", Undef, TRUE))}

ConcResponses ==
  ErrorResponses
    \cup {Response(200, "text/plain", RawText(<<"ok">>)),
          Response(200, "application/json", JsonOf(Arr(<<>>)))}

\* what no step of a concurrent caller changes
Single ==
  <<phase, inv, args, entered, loc, reqs, resps, call, outcome,
    SUPERVISOR_TOKEN, stderr>>

\* a caller calls haApiRequest or supervisorApiRequest
ConcStart ==
  /\ \E c \in CallIds : \E s \in ConcStarts :
       /\ flights[c].call.st = "none"
       /\ flights' = [flights EXCEPT
                        ![c] = [call |-> s.call, req |-> s.req,
                                ctl |-> NewController(c)]]
  /\ UNCHANGED Single

\* fetch() of one call resolves with a response
ConcResolve ==
  /\ \E c \in CallIds : \E r \in ConcResponses :
       /\ flights[c].call.st = "pending"
       /\ flights' = [flights EXCEPT ![c].call = OnResponse(@, r)]
  /\ UNCHANGED Single

\* fetch() of one call rejects on a network failure
ConcReject ==
  /\ \E c \in CallIds :
       /\ flights[c].call.st = "pending"
       /\ flights' = [flights EXCEPT
                        ![c].call = OnFetchRejected(@, NetworkError)]
  /\ UNCHANGED Single

\* the body of one call's response has arrived
ConcSettle ==
  /\ \E c \in CallIds :
       /\ flights[c].call.st = "response"
       /\ flights' = [flights EXCEPT ![c].call = OnBody(@, flights[c].req)]
  /\ UNCHANGED Single

\* the connection of one call breaks while its body is read
ConcBodyReject ==
  /\ \E c \in CallIds :
       /\ flights[c].call.st = "response"
       /\ flights' =
            [flights EXCEPT
               ![c].call = OnBodyRejected(@, flights[c].req, NetworkError)]
  /\ UNCHANGED Single

\* the timer of one call expires and aborts the call's controller: every
\* call whose signal belongs to that controller is aborted
ConcExpire ==
  /\ \E c \in CallIds :
       /\ flights[c].call.timer = "armed"
       /\ flights' =
            [d \in CallIds |->
               IF d = c
               THEN [flights[d] EXCEPT !.call = Expired(@, flights[d].req)]
               ELSE IF flights[d].ctl = flights[c].ctl
               THEN [flights[d] EXCEPT !.call = Aborted(@, flights[d].req)]
               ELSE flights[d]]
  /\ UNCHANGED Single

\* the caller of a completed call takes the payload or the error
ConcReturn ==
  /\ \E c \in CallIds :
       /\ Complete(flights[c].call)
       /\ flights' = [flights EXCEPT ![c] = NoFlight]
  /\ UNCHANGED Single

ConcNext ==
  \/ ConcStart
  \/ ConcResolve
  \/ ConcReject
  \/ ConcSettle
  \/ ConcBodyReject
  \/ ConcExpire
  \/ ConcReturn

ConcSpec == Init /\ [][ConcNext]_vars

----------------------------------------------------------------------------
(* Scheduling.  The event loop of the process runs every continuation that *)
(* is ready and every timer that is due; nothing obliges the upstream to   *)
(* answer, to finish a body or to fail.                                    *)

\* the steps of the process itself: the frontend and the handlers
Progress ==
  \/ Validate
  \/ Reject
  \/ Dispatch
  \/ EntitiesBegin
  \/ EntitiesResume
  \/ EntityStateBegin
  \/ EntityStateResume
  \/ CallServiceBegin
  \/ CallServiceResume
  \/ AreasBegin
  \/ AreasResume
  \/ DevicesBegin
  \/ DevicesResume
  \/ AutomationsBegin
  \/ AutomationsResume
  \/ IntegrationsBegin
  \/ IntegrationsResume
  \/ RestartBegin
  \/ RestartResume
  \/ ReloadBegin
  \/ ReloadResume
  \/ LogsBegin
  \/ LogsResume
  \/ HistoryBegin
  \/ HistoryResume
  \/ FireEventBegin
  \/ FireEventResume
  \/ RenderBegin
  \/ RenderResume
  \/ HandlerThrow
  \/ Reply

\* what the event loop runs when it is ready: a due timer or a continuation
Scheduled == TimerFire \/ Progress

FairSpec == Spec /\ WF_vars(Scheduled)

\* C11: every adapter call in flight eventually completes, by returning a
\* payload or by raising an error, whatever the upstream does or fails to
\* do: the timer of the call fires and aborts it
C11_CallCompletes == InFlight(call) ~> Complete(call)

\* an unanswered call has been completed by its timer
C11_Witness ==
  /\ call.st = "threw"
  /\ call.val = AbortError
  /\ call.timer = "fired"
  /\ resps = <<>>

\* the timer of the adapter call expires in this step
TimerExpires(c, d) == c.timer = "armed" /\ d.timer = "fired"

\* C12: whenever the timer of an adapter call expires while the call is in
\* flight, at whatever stage (response awaited, body of an ok response being
\* read, body of a response that is not ok being read), the call raises the
\* abort error and nothing else
C12_TimeoutRaisesAbort ==
  [][(TimerExpires(call, call') /\ InFlight(call))
       => (call'.st = "threw" /\ call'.val = AbortError)]_vars


\* the error raised for a response that is not ok, with the excerpt text
HttpError(c, req, text) ==
  Str(<<c.val.api, " ", req.method, " ">> \o req.endpoint
      \o <<" failed (", ToString(c.val.response.status), "): ">> \o text)

\* C13: every request issued carries "Bearer " followed by the credential
\* read at startup; a call started without a credential still issues its
\* request; the warning about the missing credential is on the diagnostic
\* channel once if the credential is absent, never otherwise, and no call
\* adds to the channel
C13_BearerAlwaysSent ==
  /\ \A i \in 1..Len(reqs) :
       reqs[i].authorization = <<"Bearer ">> \o ToStr(SUPERVISOR_TOKEN)
  /\ (call.st # "none") => Len(reqs) >= 1
  /\ Cardinality({i \in 1..Len(stderr) : stderr[i] = MissingTokenWarning})
       = IF Truthy(SUPERVISOR_TOKEN) THEN 0 ELSE 1

\* a call started without a credential has reached the upstream
C13_Witness ==
  /\ ~Truthy(SUPERVISOR_TOKEN)
  /\ Len(reqs) = 1
  /\ reqs[1].authorization = <<"Bearer ", "undefined">>
  /\ call.st = "response"
  /\ stderr = <<MissingTokenWarning, RunningText>>


\* C14: once a response that is not ok has arrived, the adapter call raises
\* the error made of the API name, method, path, status and body text and
\* never returns a payload; if the body cannot be read (the step delivers no
\* body) the same error is raised with an empty excerpt
C14_NonOkRaises ==
  [][(call.st = "response" /\ ~ResponseOk(call.val.response))
       => /\ call'.st = "threw"
          /\ call'.val =
               HttpError(call, reqs[Len(reqs)],
                         IF resps' # resps
                         THEN BodyText(call.val.response.body)
                         ELSE <<>>)]_vars

\* the read of an error body failed without any timeout and the status
\* error was raised with an empty excerpt
C14_Witness ==
  /\ call.st = "threw"
  /\ call.timer = "cleared"
  /\ resps = <<>>
  /\ call.val.v[Len(call.val.v)] = "): "


\* C15: whenever the adapter call of a handler has raised, the outcome of
\* the invocation is the error with the adapter's message; a handler that
\* was entered returns a text result only when it decided before any
\* upstream request (ha_restart, ha_reload_config) or when its one request
\* was answered ok and fully received
C15_AdapterErrorsPropagate ==
  /\ [][(call.st = "threw") => (outcome' = ErrorResult(call.val.v))]_vars
  /\ []((entered /\ outcome.kind = "text")
          => \/ reqs = <<>> /\ inv.tool \in {"ha_restart", "ha_reload_config"}
             \/ Len(reqs) = 1 /\ Len(resps) = 1 /\ ResponseOk(resps[1]))

\* the reload handler's upstream request was answered with an error status
\* and the invocation ended in the error carrying that status
C15_Witness ==
  /\ inv.tool = "ha_reload_config"
  /\ Len(resps) = 1
  /\ resps[1].status = 500
  /\ outcome.kind = "error"
  /\ \E i \in 1..Len(outcome.text) : outcome.text[i] = "500"


\* the order of the stages of one invocation
StageOrder ==
  {<<"Idle", "Receiving">>, <<"Receiving", "Validating">>,
   <<"Validating", "Dispatching">>, <<"Validating", "Idle">>,
   <<"Dispatching", "Idle">>}

\* C16: every invocation received eventually has its outcome sent, the
\* frontend being Idle again; the frontend leaves for Idle only with an
\* outcome, an outcome once set is not replaced, the stages follow the
\* order Receiving, Validating, Dispatching, and Dispatching is reached
\* only with arguments the schema accepts
C16_OneOutcomeThenIdle ==
  /\ (phase # "Idle") ~> (phase = "Idle")
  /\ [][(phase' # phase) => (<<phase, phase'>> \in StageOrder)]_vars
  /\ [][(phase # "Idle" /\ phase' = "Idle") => (outcome.kind # "none")]_vars
  /\ [][(outcome.kind # "none") => (outcome' = outcome \/ phase' = "Idle")]_vars
  /\ []((phase = "Dispatching") => SchemaAccepts(inv.tool, inv.args))

\* an invocation whose upstream never answered has its error outcome, about
\* to be sent
C16_Witness ==
  /\ phase = "Dispatching"
  /\ outcome = ErrorResult(AbortError.v)
  /\ reqs # <<>>
  /\ resps = <<>>


\* C17: with several adapter calls in flight, the step in which the timer
\* of one call expires changes that call only: every other call keeps its
\* stage, its timer and its outcome, whatever the interleaving
C17_TimeoutIsPerCall ==
  [][\A c \in CallIds :
       TimerExpires(flights[c].call, flights'[c].call)
         => \A d \in CallIds \ {c} : flights'[d] = flights[d]]_vars

\* one call was ended by its timer while another is still in flight with
\* its own timer pending
C17_Witness ==
  /\ flights[1].call.st = "threw"
  /\ flights[1].call.val = AbortError
  /\ flights[1].call.timer = "fired"
  /\ flights[2].call.st = "response"
  /\ flights[2].call.timer = "armed"


\* C18: an invocation issues at most one upstream request, and the step
\* that follows a failed or timed-out adapter call issues none
C18_NoRetry ==
  /\ [](Len(reqs) <= 1)
  /\ [][(call.st = "threw") => (Len(reqs') <= Len(reqs))]_vars

\* the one request of ha_call_service has failed
C18_Witness ==
  /\ inv.tool = "ha_call_service"
  /\ call.st = "threw"
  /\ Len(reqs) = 1

\* C19: a completed adapter call has no pending timer, whichever way it
\* completed, and a timer expires only for a call still in flight
C19_TimerCleared ==
  /\ [](Complete(call) => call.timer \in {"cleared", "fired"})
  /\ [][TimerExpires(call, call') => InFlight(call)]_vars

\* the body of an ok response could not be decoded: the call has thrown and
\* its timer is cancelled
C19_Witness ==
  /\ call.st = "threw"
  /\ call.val = Str(<<"SyntaxError: invalid JSON">>)
  /\ call.timer = "cleared"

====
